---- MODULE Spec2Model ----
(***************************************************************************)
(* Skill assessment application (src/QAUpload/app.py): the session, the    *)
(* question parser and grader of display_assessment_questions, and the    *)
(* sqlite store written by save_user_score, update_leaderboard,            *)
(* recalculate_leaderboard_ranks, save_assessment_history and delete_user. *)
(*                                                                         *)
(* Text is a sequence of one-character strings.  A REAL percentage is the  *)
(* exact fraction [n, d] (d > 0); fractions are compared by cross          *)
(* multiplication, which orders them as the floats (score/total)*100 are   *)
(* ordered for the small totals met here.                                  *)
(***************************************************************************)
EXTENDS Integers, Sequences, FiniteSets, TLC

VARIABLES
    ss,                  \* st.session_state of the one browser session
    users,               \* ids of the rows of table users
    next_user_id,        \* AUTOINCREMENT counter of table users
    user_scores,         \* table user_scores, in id order
    certificates,        \* table certificates, in id order
    assessment_history,  \* table assessment_history, in id order
    leaderboard,         \* table leaderboard, in id order
    now,                 \* wall clock in seconds (CURRENT_TIMESTAMP, time.time())
    ev,                  \* what the last handler did (history, read by the properties)
    fn,                  \* argument and result of the function applied last
    calls                \* the update_leaderboard calls of concurrent sessions

vars == <<ss, users, next_user_id, user_scores, certificates,
          assessment_history, leaderboard, now, ev, fn, calls>>

(***************************************************************************)
(* Bounds of the model.                                                    *)
(***************************************************************************)
MaxBlocks == 2        \* blocks of a generated text
MaxSubmissions == 2   \* rows of user_scores
MaxAccounts == 2      \* accounts ever registered
MaxTime == 1          \* last second of the clock
MaxEntries == 3       \* leaderboard rows drawn for recalculate_leaderboard_ranks
MaxTenths == 1000     \* largest percentage, in tenths, given to determine_level
MaxKeys == 3          \* longest key list given to generate_with_fallback
MaxTopics == 3        \* topics of the tables drawn for get_leaderboard
MaxLimit == 2         \* largest limit given to get_leaderboard

Topics == {"A", "B"}
None == "None"        \* Python None where a string is expected
NoText == <<>>        \* None where a text is expected (falsy like "")
NoUser == -1          \* st.session_state.user_id = None
NullRank == 0         \* rank IS NULL
ADMIN_ID == 0         \* user_id of the built-in admin login
CertThreshold == 80   \* save_user_score: if score >= 80

(***************************************************************************)
(* Strings.                                                                *)
(***************************************************************************)
NL == "\n"
Whitespace == {" ", NL}

Upper == [c \in {"A", "B", "C", "D", "Q"} |->
            CASE c = "A" -> "a" [] c = "B" -> "b" [] c = "C" -> "c"
              [] c = "D" -> "d" [] c = "Q" -> "q"]

\* str.lower() on one character
LowerChar(c) == IF c \in DOMAIN Upper THEN Upper[c] ELSE c

\* str.lower()
Lower(s) == [i \in 1..Len(s) |-> LowerChar(s[i])]

\* s[i:] starts with sub
StartsAt(s, sub, i) ==
    /\ i + Len(sub) - 1 <= Len(s)
    /\ \A k \in 1..Len(sub) : s[i + k - 1] = sub[k]

RECURSIVE FindFrom(_, _, _)
\* str.find(sub, i-1) + 1: the first index >= i where sub occurs, 0 if none
FindFrom(s, sub, i) ==
    IF i + Len(sub) - 1 > Len(s) THEN 0
    ELSE IF StartsAt(s, sub, i) THEN i
    ELSE FindFrom(s, sub, i + 1)

\* sub in s
Contains(s, sub) == FindFrom(s, sub, 1) # 0

RECURSIVE Split(_, _)
\* str.split(sep): the pieces between the non-overlapping occurrences of sep,
\* found left to right
Split(s, sep) ==
    LET i == FindFrom(s, sep, 1)
    IN  IF i = 0 THEN <<s>>
        ELSE <<SubSeq(s, 1, i - 1)>> \o Split(SubSeq(s, i + Len(sep), Len(s)), sep)

RECURSIVE Replace(_, _)
\* str.replace(old, ""): every non-overlapping occurrence of old removed
Replace(s, old) ==
    LET i == FindFrom(s, old, 1)
    IN  IF i = 0 THEN s
        ELSE SubSeq(s, 1, i - 1) \o Replace(SubSeq(s, i + Len(old), Len(s)), old)

RECURSIVE LStrip(_)
LStrip(s) == IF s # <<>> /\ Head(s) \in Whitespace THEN LStrip(Tail(s)) ELSE s

RECURSIVE RStrip(_)
RStrip(s) ==
    IF s # <<>> /\ s[Len(s)] \in Whitespace THEN RStrip(SubSeq(s, 1, Len(s) - 1)) ELSE s

\* str.strip()
Strip(s) == RStrip(LStrip(s))

AnswerLabel == <<"A", "n", "s", "w", "e", "r", ":">>
AnswerLabelSp == AnswerLabel \o <<" ">>

(***************************************************************************)
(* Question parser of display_assessment_questions.                       *)
(***************************************************************************)
\* the "correct" field of a question
CorrectOf(answer_line) ==
    IF Contains(answer_line, AnswerLabel)
    THEN Strip(Replace(answer_line, AnswerLabelSp))
    ELSE <<>>

\* ParseBlock that takes lines[1:4] for the options
ParseBlockThreeOptions(q_block) ==
    IF Strip(q_block) = <<>> THEN <<>>
    ELSE LET lines == Split(Strip(q_block), <<NL>>)
         IN  IF Len(lines) >= 6
             THEN << [question |-> lines[1],
                      options  |-> SubSeq(lines, 2, 4),
                      correct  |-> CorrectOf(lines[6])] >>
             ELSE <<>>

\* ParseBlock that accepts a block of five lines
ParseBlockLoose(q_block) ==
    IF Strip(q_block) = <<>> THEN <<>>
    ELSE LET lines == Split(Strip(q_block), <<NL>>)
             answer_line == IF Len(lines) > 5 THEN lines[6] ELSE <<>>
         IN  IF Len(lines) >= 5
             THEN << [question |-> lines[1],
                      options  |-> SubSeq(lines, 2, 5),
                      correct  |-> CorrectOf(answer_line)] >>
             ELSE <<>>

\* one block of the text: the questions it adds to user_answers (none or one)
ParseBlock(q_block) ==
    IF Strip(q_block) = <<>> THEN <<>>
    ELSE LET lines == Split(Strip(q_block), <<NL>>)
             answer_line == IF Len(lines) > 5 THEN lines[6] ELSE <<>>
         IN  IF Len(lines) >= 6
             THEN << [question |-> lines[1],
                      options  |-> SubSeq(lines, 2, 5),
                      correct  |-> CorrectOf(answer_line)] >>
             ELSE <<>>

RECURSIVE ParseBlocks(_)
ParseBlocks(blocks) ==
    IF blocks = <<>> THEN <<>>
    ELSE ParseBlock(Head(blocks)) \o ParseBlocks(Tail(blocks))

\* the questions shown in the form, in order (the values of user_answers
\* without the choice)
ParseQuestions(text) == ParseBlocks(Split(text, <<NL, NL>>))

(***************************************************************************)
(* Grading.                                                                *)
(***************************************************************************)
\* the value st.radio returns: the chosen option line, or None
ChoiceOf(q, k) == IF k = 0 THEN NoText ELSE q.options[k]

\* the condition under which the loop adds one to correct_count
IsCorrect(user_choice, correct_answer) ==
    /\ user_choice # NoText
    /\ correct_answer # <<>>
    /\ <<LowerChar(user_choice[1])>> = Lower(correct_answer)

RECURSIVE CorrectCount(_, _)
\* correct_count after the loop over user_answers; picks[i] is the option
\* chosen for question i (0: none)
CorrectCount(qs, picks) ==
    IF qs = <<>> THEN 0
    ELSE (IF IsCorrect(ChoiceOf(Head(qs), Head(picks)), Head(qs).correct) THEN 1 ELSE 0)
         + CorrectCount(Tail(qs), Tail(picks))

\* Percentage without the guard against total_questions = 0
PercentageUnguarded(score, total) == [n |-> score * 100, d |-> total]

\* (score / total_questions) * 100 if total_questions > 0 else 0
Percentage(score, total) ==
    IF total > 0 THEN [n |-> score * 100, d |-> total] ELSE [n |-> 0, d |-> 1]

PctGT(p, q) == p.n * q.d > q.n * p.d
PctEQ(p, q) == p.n * q.d = q.n * p.d
\* percentage >= k for an integer k
PctGE(p, k) == p.n >= k * p.d

\* determine_level with "score > 90" for the first cut-off
determine_level_strict(score) ==
    IF score.n > 90 * score.d THEN "Expert"
    ELSE IF PctGE(score, 75) THEN "Advanced"
    ELSE IF PctGE(score, 60) THEN "Intermediate"
    ELSE IF PctGE(score, 40) THEN "Beginner"
    ELSE "Novice"

determine_level(score) ==
    IF PctGE(score, 90) THEN "Expert"
    ELSE IF PctGE(score, 75) THEN "Advanced"
    ELSE IF PctGE(score, 60) THEN "Intermediate"
    ELSE IF PctGE(score, 40) THEN "Beginner"
    ELSE "Novice"

\* Grade whose total counts only the questions that have an answer key
GradeKeyedTotal(user_answers, picks) ==
    LET Keyed(q) == q.correct # <<>>
        total == Len(SelectSeq(user_answers, Keyed))
        correct_count == CorrectCount(user_answers, picks)
        score_percentage == Percentage(correct_count, total)
    IN  [correct_count |-> correct_count, total |-> total,
         score_percentage |-> score_percentage,
         level |-> determine_level(score_percentage)]

\* correct_count, total, score_percentage and level of a submission
Grade(user_answers, picks) ==
    LET total == Len(user_answers)
        correct_count == CorrectCount(user_answers, picks)
        score_percentage == Percentage(correct_count, total)
    IN  [correct_count |-> correct_count, total |-> total,
         score_percentage |-> score_percentage,
         level |-> determine_level(score_percentage)]

(***************************************************************************)
(* Texts the generation service returns: blocks separated by a blank line. *)
(***************************************************************************)
RECURSIVE Join(_, _)
\* sep.join(parts)
Join(parts, sep) ==
    IF parts = <<>> THEN <<>>
    ELSE IF Len(parts) = 1 THEN parts[1]
    ELSE parts[1] \o sep \o Join(Tail(parts), sep)

OptionLines == << <<"a">>, <<"b">>, <<"c">>, <<"d">> >>

\* prompt line, four option lines, "Answer: a"
BlockValid == Join(<< <<"Q">> >> \o OptionLines \o <<AnswerLabelSp \o <<"a">>>>, <<NL>>)
\* six lines, the last one not an answer line
BlockNoKey == Join(<< <<"Q">> >> \o OptionLines \o << <<"e">> >>, <<NL>>)
\* a partial block: the answer line is missing
BlockShort == Join(<< <<"Q">> >> \o OptionLines, <<NL>>)

\* the blocks a text is made of: a valid block with the answer letter a, b, c
\* or d; a block whose sixth line is no answer line; a partial block of five
\* lines; a block broken in two by a stray blank line; a block whose answer
\* line names option b in another of the forms the service writes
ValidKinds == {"a", "b", "c", "d"}
VariantKinds == {"upper", "lowlabel", "nospace", "withtext"}
BlockKinds == ValidKinds \cup {"nokey", "short", "broken"} \cup VariantKinds

\* the answer line of a block of a variant kind: "Answer: B", "answer: b",
\* "Answer:b", "Answer: b) x"
VariantAnswerLine(kind) ==
    CASE kind = "upper" -> AnswerLabelSp \o <<"B">>
      [] kind = "lowlabel" -> <<"a">> \o Tail(AnswerLabelSp) \o <<"b">>
      [] kind = "nospace" -> AnswerLabel \o <<"b">>
      [] kind = "withtext" -> AnswerLabelSp \o <<"b", ")", " ", "x">>

Digits == <<"1", "2", "3", "4", "5">>

\* the prompt line of the i-th block: "Q<i>"
PromptLine(i) == <<"Q", Digits[i]>>

\* the lines of the i-th block, of the given kind
BlockLines(kind, i) ==
    CASE kind \in ValidKinds ->
            <<PromptLine(i)>> \o OptionLines \o <<AnswerLabelSp \o <<kind>>>>
      [] kind = "nokey" -> <<PromptLine(i)>> \o OptionLines \o << <<"e">> >>
      [] kind = "short" -> <<PromptLine(i)>> \o OptionLines
      [] kind = "broken" ->
            <<PromptLine(i), <<"a">>, <<"b">>, <<>>, <<"c">>, <<"d">>,
              AnswerLabelSp \o <<"a">>>>
      [] kind \in VariantKinds ->
            <<PromptLine(i)>> \o OptionLines \o <<VariantAnswerLine(kind)>>

\* the text of blocks of the given kinds, separated by a blank line
TextOf(kinds) ==
    Join([i \in 1..Len(kinds) |-> Join(BlockLines(kinds[i], i), <<NL>>)], <<NL, NL>>)

\* the kinds of the blocks of every text of at most MaxBlocks blocks
GeneratedKinds == UNION {[1..n -> BlockKinds] : n \in 1..MaxBlocks}

\* every text of at most MaxBlocks blocks
GeneratedTexts == {TextOf(kinds) : kinds \in GeneratedKinds}

\* the texts the generation service returns to the session
ApiTexts == {BlockValid, BlockShort, Join(<<BlockValid, BlockNoKey>>, <<NL, NL>>)}

\* the answers a user can give to n questions: per question one of the four
\* options, or none (0)
Picks(n) == [1..n -> 0..4]

(***************************************************************************)
(* The store.  Every function opens its own connection; a connection that  *)
(* has executed INSERT/UPDATE/DELETE holds the database write lock until   *)
(* it commits, and the write of another connection then fails with         *)
(* "database is locked" once the busy timeout has passed.  A connection    *)
(* dropped by an exception loses its uncommitted writes.                   *)
(***************************************************************************)
EntryIds(lb, topic) == {i \in 1..Len(lb) : lb[i].topic = topic}

\* ORDER BY percentage DESC, timestamp DESC: row i may come before row j
Before(lb, i, j) ==
    \/ PctGT(lb[i].percentage, lb[j].percentage)
    \/ /\ PctEQ(lb[i].percentage, lb[j].percentage)
       /\ lb[i].timestamp >= lb[j].timestamp

\* the results the SELECT can return: the ids of the topic's rows in every
\* order the ORDER BY allows (rows equal in both keys come in any order)
SelectOrdered(lb, topic) ==
    LET ids == EntryIds(lb, topic)
        n == Cardinality(ids)
    IN  {o \in [1..n -> ids] :
            /\ \A a, b \in 1..n : a # b => o[a] # o[b]
            /\ \A a, b \in 1..n : a < b => Before(lb, o[a], o[b])}

\* SetRanks with enumerate(entries) counting from 0
SetRanksFromZero(lb, entries) ==
    [i \in 1..Len(lb) |->
        IF \E k \in 1..Len(entries) : entries[k] = i
        THEN [lb[i] EXCEPT !.rank = (CHOOSE k \in 1..Len(entries) : entries[k] = i) - 1]
        ELSE lb[i]]

\* for rank, (entry_id,) in enumerate(entries, start=1): UPDATE ... SET rank
SetRanks(lb, entries) ==
    [i \in 1..Len(lb) |->
        IF \E k \in 1..Len(entries) : entries[k] = i
        THEN [lb[i] EXCEPT !.rank = CHOOSE k \in 1..Len(entries) : entries[k] = i]
        ELSE lb[i]]

\* recalculate_leaderboard_ranks(topic) on the committed table lb; locked:
\* another connection holds the write lock.  The possible outcomes.
recalculate_leaderboard_ranks(lb, topic, locked) ==
    {IF entries # <<>> /\ locked
        THEN [leaderboard |-> lb, raised |-> TRUE]
        ELSE [leaderboard |-> SetRanks(lb, entries), raised |-> FALSE]
     : entries \in SelectOrdered(lb, topic)}

\* UPDATE leaderboard SET ... WHERE user_id=? AND topic=? AND ? > percentage
UpdateEntry(lb, user_id, topic, score, total_questions, percentage, ts) ==
    [i \in 1..Len(lb) |->
        IF /\ lb[i].user_id = user_id /\ lb[i].topic = topic
           /\ PctGT(percentage, lb[i].percentage)
        THEN [lb[i] EXCEPT !.score = score, !.total_questions = total_questions,
                           !.percentage = percentage, !.timestamp = ts]
        ELSE lb[i]]

\* INSERT INTO leaderboard (...): rank is NULL, timestamp CURRENT_TIMESTAMP
InsertEntry(lb, user_id, topic, score, total_questions, percentage, ts) ==
    Append(lb, [user_id |-> user_id, topic |-> topic, score |-> score,
                total_questions |-> total_questions, percentage |-> percentage,
                rank |-> NullRank, timestamp |-> ts])

\* the table after this connection's commit: its own write, plus the ranks
\* the nested connection committed meanwhile
CommitOver(pending, committed) ==
    [i \in 1..Len(pending) |->
        IF i <= Len(committed) THEN [pending[i] EXCEPT !.rank = committed[i].rank]
        ELSE pending[i]]

\* update_leaderboard that commits an unconditional UPDATE (no
\* "AND ? > percentage") before it recalculates the ranks
update_leaderboard_overwrite(lb, user_id, topic, score, total_questions, ts, locked) ==
    LET percentage == Percentage(score, total_questions)
        existing == \E i \in 1..Len(lb) : lb[i].user_id = user_id /\ lb[i].topic = topic
        written == IF existing
                   THEN [i \in 1..Len(lb) |->
                           IF lb[i].user_id = user_id /\ lb[i].topic = topic
                           THEN [lb[i] EXCEPT !.score = score,
                                              !.total_questions = total_questions,
                                              !.percentage = percentage,
                                              !.timestamp = ts]
                           ELSE lb[i]]
                   ELSE InsertEntry(lb, user_id, topic, score, total_questions, percentage, ts)
    IN  IF locked
        THEN {[leaderboard |-> lb, raised |-> TRUE]}
        ELSE {[leaderboard |-> r.leaderboard, raised |-> r.raised]
              : r \in recalculate_leaderboard_ranks(written, topic, FALSE)}

\* update_leaderboard on the committed table lb; locked: the caller's
\* connection holds the write lock.  The possible outcomes.
update_leaderboard(lb, user_id, topic, score, total_questions, ts, locked) ==
    LET percentage == Percentage(score, total_questions)
        existing == \E i \in 1..Len(lb) : lb[i].user_id = user_id /\ lb[i].topic = topic
        pending == IF existing
                   THEN UpdateEntry(lb, user_id, topic, score, total_questions, percentage, ts)
                   ELSE InsertEntry(lb, user_id, topic, score, total_questions, percentage, ts)
    IN  IF locked
        THEN {[leaderboard |-> lb, raised |-> TRUE]}
        ELSE {IF r.raised
                 THEN [leaderboard |-> lb, raised |-> TRUE]
                 ELSE [leaderboard |-> CommitOver(pending, r.leaderboard), raised |-> FALSE]
              : r \in recalculate_leaderboard_ranks(lb, topic, TRUE)}

\* INSERT OR REPLACE INTO certificates: certificate_id is the only UNIQUE
\* column the statement sets, so only a row with the same certificate_id
\* is replaced
InsertOrReplaceCertificate(certs, row) ==
    LET Other(r) == r.certificate_id # row.certificate_id
    IN  Append(SelectSeq(certs, Other), row)

\* save_user_score: the tables after the call and whether it raised
save_user_score(scores, certs, lb, user_id, topic, score, total_questions, level, ts) ==
    LET scores1 == Append(scores, [user_id |-> user_id, topic |-> topic, score |-> score,
                                   total_questions |-> total_questions, level |-> level])
        issue == score >= CertThreshold
        certs1 == IF issue
                  THEN InsertOrReplaceCertificate(certs,
                         [user_id |-> user_id, certificate_id |-> <<user_id, ts>>,
                          topic |-> topic, score |-> score, status |-> "active"])
                  ELSE certs
    IN  {IF r.raised
            THEN [user_scores |-> scores1, certificates |-> certs,
                  leaderboard |-> lb, raised |-> TRUE]
            ELSE [user_scores |-> scores1, certificates |-> certs1,
                  leaderboard |-> r.leaderboard, raised |-> FALSE]
         : r \in update_leaderboard(lb, user_id, topic, score, total_questions, ts, issue)}

\* save_assessment_history
save_assessment_history(history, user_id, topic, score, max_score) ==
    Append(history, [user_id |-> user_id, topic |-> topic,
                     score |-> score, max_score |-> max_score])

(***************************************************************************)
(* Reading the leaderboard.                                                *)
(***************************************************************************)
MinTests == 3   \* HAVING COUNT(*) >= 3

\* the sum of two REALs
AddPct(p, q) == [n |-> p.n * q.d + q.n * p.d, d |-> p.d * q.d]

RECURSIVE SumPct(_)
\* SUM(percentage) over rows
SumPct(rows) ==
    IF rows = <<>> THEN [n |-> 0, d |-> 1]
    ELSE AddPct(Head(rows).percentage, SumPct(Tail(rows)))

\* FROM leaderboard l JOIN users u ON l.user_id = u.id
Joined(lb, us) == LET HasUser(r) == r.user_id \in us IN SelectSeq(lb, HasUser)

\* the rows of one group of GROUP BY u.id
GroupOf(rows, u) == LET Mine(r) == r.user_id = u IN SelectSeq(rows, Mine)

\* AVG(l.percentage) of a group
AvgPct(rows) == LET sum == SumPct(rows) IN [n |-> sum.n, d |-> sum.d * Len(rows)]

\* the groups that pass HAVING, with their aggregates and RANK() OVER
\* (ORDER BY AVG(l.percentage) DESC)
OverallRows(lb, us, having) ==
    LET rows == Joined(lb, us)
        groups == {u \in us : Len(GroupOf(rows, u)) >= having /\ Len(GroupOf(rows, u)) > 0}
        avg(u) == AvgPct(GroupOf(rows, u))
    IN  {[username |-> u, topic |-> "Overall", avg_percentage |-> avg(u),
          tests_taken |-> Len(GroupOf(rows, u)),
          rank |-> 1 + Cardinality({v \in groups : PctGT(avg(v), avg(u))})]
         : u \in groups}

\* ORDER BY avg_percentage DESC: the orders the rows can come in
OrderedByAvg(rowset) ==
    LET n == Cardinality(rowset)
    IN  {o \in [1..n -> rowset] :
            /\ \A a, b \in 1..n : a # b => o[a] # o[b]
            /\ \A a, b \in 1..n :
                  a < b => ~PctGT(o[b].avg_percentage, o[a].avg_percentage)}

\* ORDER BY l.rank ASC (NULL first): the orders the rows can come in
OrderedByRank(rowset) ==
    LET n == Cardinality(rowset)
    IN  {o \in [1..n -> rowset] :
            /\ \A a, b \in 1..n : a # b => o[a] # o[b]
            /\ \A a, b \in 1..n : a < b => o[a].rank <= o[b].rank}

\* LIMIT ?
Limit(rows, limit) == SubSeq(rows, 1, IF limit < Len(rows) THEN limit ELSE Len(rows))

\* get_leaderboard that keeps the groups of two and more entries
get_leaderboard_having_two(lb, us, topic, limit) ==
    {Limit(o, limit) : o \in OrderedByAvg(OverallRows(lb, us, MinTests - 1))}

\* get_leaderboard(topic, limit) on the table lb and the user ids us: the
\* results fetchall() can return (rows equal in the sort key come in any
\* order).  A user's id stands for the username.
get_leaderboard(lb, us, topic, limit) ==
    IF topic # None /\ topic # ""
    THEN LET ids == {i \in 1..Len(lb) : lb[i].topic = topic /\ lb[i].user_id \in us}
             rowset == {[id |-> i, username |-> lb[i].user_id, topic |-> lb[i].topic,
                         score |-> lb[i].score, total_questions |-> lb[i].total_questions,
                         percentage |-> lb[i].percentage, rank |-> lb[i].rank,
                         timestamp |-> lb[i].timestamp] : i \in ids}
         IN  {Limit(o, limit) : o \in OrderedByRank(rowset)}
    ELSE {Limit(o, limit) : o \in OrderedByAvg(OverallRows(lb, us, MinTests))}

(***************************************************************************)
(* Text generation.                                                        *)
(***************************************************************************)
NumKeys == 1   \* len(GEMINI_API_KEYS)

\* what one generate_content call does: a response with a text, an exception
\* whose message holds one of the retry keywords, or any other exception
ApiOutcomes ==
    {[kind |-> "text", text |-> t] : t \in ApiTexts \cup {<<>>}}
        \cup {[kind |-> "retryable", text |-> <<>>], [kind |-> "other", text |-> <<>>]}

\* one generate_content call ended with a non-empty response.text
Succeeded(o) == o.kind = "text" /\ o.text # <<>>

RECURSIVE FallbackFromSkip(_, _)
\* FallbackFrom that passes over a key after a retryable error
FallbackFromSkip(outcomes, index) ==
    IF index > Len(outcomes) THEN [kind |-> "raise", text |-> NoText, tried |-> <<>>]
    ELSE LET o == outcomes[index]
         IN  IF Succeeded(o)
             THEN [kind |-> "return", text |-> Strip(o.text), tried |-> <<index>>]
             ELSE IF o.kind = "retryable"
                  THEN LET r == FallbackFromSkip(outcomes, index + 2)
                       IN  [r EXCEPT !.tried = <<index>> \o @]
                  ELSE [kind |-> "return", text |-> NoText, tried |-> <<index>>]

RECURSIVE FallbackFromRetryAll(_, _)
\* FallbackFrom that goes on to the next key after every exception
FallbackFromRetryAll(outcomes, index) ==
    IF index > Len(outcomes) THEN [kind |-> "raise", text |-> NoText, tried |-> <<>>]
    ELSE LET o == outcomes[index]
         IN  IF Succeeded(o)
             THEN [kind |-> "return", text |-> Strip(o.text), tried |-> <<index>>]
             ELSE LET r == FallbackFromRetryAll(outcomes, index + 1)
                  IN  [r EXCEPT !.tried = <<index>> \o @]

RECURSIVE FallbackFromNoRaise(_, _)
\* FallbackFrom that returns None when the keys are exhausted
FallbackFromNoRaise(outcomes, index) ==
    IF index > Len(outcomes) THEN [kind |-> "return", text |-> NoText, tried |-> <<>>]
    ELSE LET o == outcomes[index]
         IN  IF Succeeded(o)
             THEN [kind |-> "return", text |-> Strip(o.text), tried |-> <<index>>]
             ELSE IF o.kind = "retryable"
                  THEN LET r == FallbackFromNoRaise(outcomes, index + 1)
                       IN  [r EXCEPT !.tried = <<index>> \o @]
                  ELSE [kind |-> "return", text |-> NoText, tried |-> <<index>>]

RECURSIVE FallbackFrom(_, _)
\* the loop of generate_with_fallback from key number index on: how the call
\* ends (a returned value or the RuntimeError after the loop) and the keys
\* generate_content was called with, in order.  An empty response raises
\* "Empty response received" inside the try, which holds no retry keyword.
FallbackFrom(outcomes, index) ==
    IF index > Len(outcomes) THEN [kind |-> "raise", text |-> NoText, tried |-> <<>>]
    ELSE LET o == outcomes[index]
         IN  IF Succeeded(o)
             THEN [kind |-> "return", text |-> Strip(o.text), tried |-> <<index>>]
             ELSE IF o.kind = "retryable"
                  THEN LET r == FallbackFrom(outcomes, index + 1)
                       IN  [r EXCEPT !.tried = <<index>> \o @]
                  ELSE [kind |-> "return", text |-> NoText, tried |-> <<index>>]

\* generate_with_fallback; outcomes[i] is what the call with key i does
generate_with_fallback(outcomes) == FallbackFrom(outcomes, 1)

(***************************************************************************)
(* Handlers.                                                               *)
(***************************************************************************)
NoPct == [n |-> 0, d |-> 1]

\* the two browser sessions that submit concurrently
Sessions == {1, 2}

\* a session that is not inside update_leaderboard; topic and overlapped
\* tell of its last call
NoCall == [pc |-> "idle", user_id |-> NoUser, topic |-> None, score |-> 0,
           total_questions |-> 0, existing |-> FALSE, ts |-> 0,
           entries |-> <<>>, overlapped |-> FALSE]

\* no connection holds the write lock (writer 0) and no call is running
NoCalls == [writer |-> 0, of |-> [p \in Sessions |-> NoCall]]

Event(op, user_id, topic, correct_count, total, percentage, level, raised) ==
    [op |-> op, user_id |-> user_id, topic |-> topic, correct_count |-> correct_count,
     total |-> total, percentage |-> percentage, level |-> level, raised |-> raised]

NoEvent == Event("none", NoUser, None, 0, 0, NoPct, None, FALSE)

\* Python truthiness of a text and of a user id
TruthyText(v) == v # NoText
TruthyId(v) == v # NoUser /\ v # 0

\* the session has no time_limit and no test_start_time yet
NoTime == -1

\* "Time Limit (minutes)": the least value the input takes
TimeLimits == {5}

tables == <<user_scores, certificates, assessment_history, leaderboard>>

Init ==
    /\ ss = [logged_in |-> FALSE, user_id |-> NoUser, is_admin |-> FALSE,
             questions |-> NoText, generated_topic |-> None,
             time_limit |-> NoTime, test_start_time |-> NoTime]
    /\ users = {1}
    /\ next_user_id = 2
    /\ user_scores = <<>>
    /\ certificates = <<>>
    /\ assessment_history = <<>>
    /\ leaderboard = <<>>
    /\ now = 0
    /\ ev = NoEvent
    /\ fn = [op |-> "none"]
    /\ calls = NoCalls

\* register_page: create_user
Register ==
    /\ ~ss.logged_in
    /\ next_user_id <= MaxAccounts + 1
    /\ users' = users \cup {next_user_id}
    /\ next_user_id' = next_user_id + 1
    /\ ev' = NoEvent
    /\ UNCHANGED <<ss, tables, now, fn, calls>>

\* login_page: a learner signs in (the row of "admin" is never signed in to:
\* its credentials take the admin branch)
Login(u) ==
    /\ ~ss.logged_in
    /\ u \in users \ {1}
    /\ ss' = [ss EXCEPT !.logged_in = TRUE, !.user_id = u, !.is_admin = FALSE]
    /\ ev' = NoEvent
    /\ UNCHANGED <<users, next_user_id, tables, now, fn, calls>>

\* login_page: the admin signs in
AdminLogin ==
    /\ ~ss.logged_in
    /\ ss' = [ss EXCEPT !.logged_in = TRUE, !.user_id = ADMIN_ID, !.is_admin = TRUE]
    /\ ev' = NoEvent
    /\ UNCHANGED <<users, next_user_id, tables, now, fn, calls>>

\* admin_dashboard: "Switch to User View"
SwitchToUserView ==
    /\ ss.logged_in /\ ss.is_admin
    /\ ss' = [ss EXCEPT !.is_admin = FALSE]
    /\ ev' = NoEvent
    /\ UNCHANGED <<users, next_user_id, tables, now, fn, calls>>

\* learner_dashboard / admin_dashboard: "Logout"
Logout ==
    /\ ss.logged_in
    /\ ss' = [ss EXCEPT !.logged_in = FALSE, !.user_id = NoUser, !.is_admin = FALSE]
    /\ ev' = NoEvent
    /\ UNCHANGED <<users, next_user_id, tables, now, fn, calls>>

\* GenerateAssessment that drops the assessment of the session when the
\* generation fails
GenerateAssessmentOrDrop(s, topic, time_limit, outcomes, t) ==
    LET questions == generate_with_fallback(outcomes)
    IN  IF questions.kind = "return" /\ TruthyText(questions.text)
        THEN [s EXCEPT !.questions = questions.text, !.generated_topic = topic,
                       !.time_limit = time_limit, !.test_start_time = t]
        ELSE [s EXCEPT !.questions = NoText, !.generated_topic = None]

\* lines 1047-1069: the session after "Generate Assessment" at time t, when
\* outcomes[i] is what the service does with key i
GenerateAssessment(s, topic, time_limit, outcomes, t) ==
    LET questions == generate_with_fallback(outcomes)
    IN  IF questions.kind = "return" /\ TruthyText(questions.text)
        THEN [s EXCEPT !.questions = questions.text, !.generated_topic = topic,
                       !.time_limit = time_limit, !.test_start_time = t]
        ELSE s

\* show_test_generator: "Generate Assessment"
Generate(topic, outcomes) ==
    /\ ss.logged_in /\ ~ss.is_admin
    /\ \E time_limit \in TimeLimits :
          ss' = GenerateAssessment(ss, topic, time_limit, outcomes, now)
    /\ ev' = NoEvent
    /\ UNCHANGED <<users, next_user_id, tables, now, fn, calls>>

\* show_test_generator: "Back to Dashboard"
BackToDashboard ==
    /\ ss.logged_in /\ ~ss.is_admin
    /\ ss' = [ss EXCEPT !.questions = NoText]
    /\ ev' = NoEvent
    /\ UNCHANGED <<users, next_user_id, tables, now, fn, calls>>

\* lines 1916-1935: save_user_score and then save_assessment_history, which
\* an exception of save_user_score skips
SaveResult(user_id, topic, correct_count, total, score_percentage, level) ==
    \E r \in save_user_score(user_scores, certificates, leaderboard, user_id, topic,
                              correct_count, total, level, now) :
       /\ user_scores' = r.user_scores
       /\ certificates' = r.certificates
       /\ leaderboard' = r.leaderboard
       /\ assessment_history' =
             IF r.raised THEN assessment_history
             ELSE save_assessment_history(assessment_history, user_id, topic,
                                          correct_count, total)
       /\ ev' = Event("submit", user_id, topic, correct_count, total,
                      score_percentage, level, r.raised)

\* lines 1821-1822: the seconds left of the time limit at time t
TimeRemaining(s, t) == s.time_limit * 60 - (t - s.test_start_time)

\* lines 1824-1828: the page shows the warning "Time's up!" instead of the
\* time remaining
TimesUp(s, t) == ~(TimeRemaining(s, t) > 0)

\* SubmitWith that saves nothing once the time is up
SubmitWithinLimit(user_answers, picks) ==
    /\ ss.logged_in /\ ~ss.is_admin
    /\ TruthyText(ss.questions)
    /\ Len(user_scores) < MaxSubmissions
    /\ LET g == Grade(user_answers, picks)
           topic == IF ss.generated_topic = None THEN "Unknown" ELSE ss.generated_topic
       IN  /\ IF TruthyId(ss.user_id) /\ ~TimesUp(ss, now)
              THEN SaveResult(ss.user_id, topic, g.correct_count, g.total,
                              g.score_percentage, g.level)
              ELSE /\ UNCHANGED tables
                   /\ ev' = Event("submit", ss.user_id, topic, g.correct_count, g.total,
                                  g.score_percentage, g.level, FALSE)
    /\ UNCHANGED <<ss, users, next_user_id, now, fn, calls>>

\* display_assessment_questions: "Submit Assessment" with the options picks
SubmitWith(user_answers, picks) ==
    /\ ss.logged_in /\ ~ss.is_admin
    /\ TruthyText(ss.questions)
    /\ Len(user_scores) < MaxSubmissions
    /\ LET g == Grade(user_answers, picks)
           total == g.total
           correct_count == g.correct_count
           score_percentage == g.score_percentage
           level == g.level
           topic == IF ss.generated_topic = None THEN "Unknown" ELSE ss.generated_topic
       IN  /\ IF TruthyId(ss.user_id)
              THEN SaveResult(ss.user_id, topic, correct_count, total,
                              score_percentage, level)
              ELSE /\ UNCHANGED tables
                   /\ ev' = Event("submit", ss.user_id, topic, correct_count, total,
                                  score_percentage, level, FALSE)
    /\ UNCHANGED <<ss, users, next_user_id, now, fn, calls>>

Submit ==
    LET user_answers == ParseQuestions(ss.questions)
    IN  \E picks \in Picks(Len(user_answers)) : SubmitWith(user_answers, picks)

\* delete_user without the DELETE on assessment_history
DeleteUserKeepsHistory(u) ==
    /\ ss.logged_in /\ ss.is_admin
    /\ u \in users
    /\ LET Kept(r) == r.user_id # u
       IN  /\ user_scores' = SelectSeq(user_scores, Kept)
           /\ certificates' = SelectSeq(certificates, Kept)
           /\ leaderboard' = SelectSeq(leaderboard, Kept)
    /\ users' = users \ {u}
    /\ ev' = Event("delete", u, None, 0, 0, NoPct, None, FALSE)
    /\ UNCHANGED <<ss, next_user_id, assessment_history, now, fn, calls>>

\* show_user_management: delete_user
DeleteUser(u) ==
    /\ ss.logged_in /\ ss.is_admin
    /\ u \in users
    /\ LET Kept(r) == r.user_id # u
       IN  /\ user_scores' = SelectSeq(user_scores, Kept)
           /\ certificates' = SelectSeq(certificates, Kept)
           /\ assessment_history' = SelectSeq(assessment_history, Kept)
           /\ leaderboard' = SelectSeq(leaderboard, Kept)
    /\ users' = users \ {u}
    /\ ev' = Event("delete", u, None, 0, 0, NoPct, None, FALSE)
    /\ UNCHANGED <<ss, next_user_id, now, fn, calls>>

\* a second passes
Tick ==
    /\ now < MaxTime
    /\ now' = now + 1
    /\ ev' = NoEvent
    /\ UNCHANGED <<ss, users, next_user_id, tables, fn, calls>>

Next ==
    \/ Register
    \/ \E u \in users : Login(u)
    \/ AdminLogin
    \/ SwitchToUserView
    \/ Logout
    \/ \E topic \in Topics, outcomes \in [1..NumKeys -> ApiOutcomes] : Generate(topic, outcomes)
    \/ BackToDashboard
    \/ Submit
    \/ \E u \in users : DeleteUser(u)
    \/ Tick

Spec == Init /\ [][Next]_vars

(***************************************************************************)
(* determine_level applied to the percentages 0.0, 0.1, ..., MaxTenths/10. *)
(***************************************************************************)
InitLevel ==
    /\ Init

Level(k) ==
    /\ fn' = [op |-> "determine_level", tenths |-> k,
              level |-> determine_level([n |-> k, d |-> 10])]
    /\ UNCHANGED <<ss, users, next_user_id, tables, now, ev, calls>>

NextLevel == \E k \in 0..MaxTenths : Level(k)

SpecLevel == InitLevel /\ [][NextLevel]_vars

(***************************************************************************)
(* Parsing and grading applied to every text of at most MaxBlocks blocks   *)
(* and every way of answering it.                                          *)
(***************************************************************************)
InitGrade ==
    /\ ss = [logged_in |-> FALSE, user_id |-> NoUser, is_admin |-> FALSE,
             questions |-> NoText, generated_topic |-> None,
             time_limit |-> NoTime, test_start_time |-> NoTime]
    /\ users = {1}
    /\ next_user_id = 2
    /\ user_scores = <<>>
    /\ certificates = <<>>
    /\ assessment_history = <<>>
    /\ leaderboard = <<>>
    /\ now = 0
    /\ ev = NoEvent
    /\ \E kinds \in GeneratedKinds :
          fn = [op |-> "text", kinds |-> kinds, text |-> TextOf(kinds)]
    /\ calls = NoCalls

\* the submission of the form that shows user_answers
GradeParsed(user_answers) ==
    \E picks \in Picks(Len(user_answers)) :
       /\ fn' = [op |-> "grade", kinds |-> fn.kinds, text |-> fn.text, picks |-> picks,
                 user_answers |-> user_answers,
                 result |-> Grade(user_answers, picks)]
       /\ UNCHANGED <<ss, users, next_user_id, tables, now, ev, calls>>

GradeText ==
    /\ fn.op = "text"
    /\ GradeParsed(ParseQuestions(fn.text))

NextGrade == GradeText

SpecGrade == InitGrade /\ [][NextGrade]_vars

(***************************************************************************)
(* recalculate_leaderboard_ranks called on its own (no other connection    *)
(* holds the write lock) on any table of at most MaxEntries rows.          *)
(***************************************************************************)
\* the tables of n rows of distinct users; stale: the ranks left by an
\* earlier state
DrawnBoards(n) ==
    {[i \in 1..n |->
        [user_id |-> i + 1, topic |-> tp[i], score |-> sc[i], total_questions |-> 2,
         percentage |-> Percentage(sc[i], 2),
         rank |-> IF stale THEN 1 ELSE NullRank, timestamp |-> ts[i]]]
     : tp \in [1..n -> Topics], sc \in [1..n -> 1..2], ts \in [1..n -> 0..MaxTime],
       stale \in BOOLEAN}

InitRecalc ==
    /\ ss = [logged_in |-> FALSE, user_id |-> NoUser, is_admin |-> FALSE,
             questions |-> NoText, generated_topic |-> None,
             time_limit |-> NoTime, test_start_time |-> NoTime]
    /\ users = {1}
    /\ next_user_id = 2
    /\ user_scores = <<>>
    /\ certificates = <<>>
    /\ assessment_history = <<>>
    /\ \E n \in 0..MaxEntries : leaderboard \in DrawnBoards(n)
    /\ now = 0
    /\ ev = NoEvent
    /\ fn = [op |-> "none", topic |-> None, before |-> <<>>]
    /\ calls = NoCalls

Recalculate(topic) ==
    /\ \E r \in recalculate_leaderboard_ranks(leaderboard, topic, FALSE) :
          leaderboard' = r.leaderboard
    /\ fn' = [op |-> "recalculate_leaderboard_ranks", topic |-> topic,
              before |-> leaderboard]
    /\ UNCHANGED <<ss, users, next_user_id, user_scores, certificates,
                   assessment_history, now, ev, calls>>

NextRecalc == \E topic \in Topics : Recalculate(topic)

SpecRecalc == InitRecalc /\ [][NextRecalc]_vars

(***************************************************************************)
(* update_leaderboard called as save_user_score calls it when no           *)
(* certificate insert is pending, for any user, topic and score.           *)
(***************************************************************************)
\* how the new percentage compares with the one stored for (user_id, topic)
Compare(lb, user_id, topic, percentage) ==
    IF \A i \in 1..Len(lb) : ~(lb[i].user_id = user_id /\ lb[i].topic = topic)
    THEN "new"
    ELSE LET stored == lb[CHOOSE i \in 1..Len(lb) :
                            lb[i].user_id = user_id /\ lb[i].topic = topic].percentage
         IN  IF PctGT(percentage, stored) THEN "higher"
             ELSE IF PctEQ(percentage, stored) THEN "equal" ELSE "lower"

InitBoard ==
    /\ Init

UpdateLeaderboard(user_id, topic, score, total_questions) ==
    /\ \E r \in update_leaderboard(leaderboard, user_id, topic, score,
                                   total_questions, now, FALSE) :
          /\ leaderboard' = r.leaderboard
          /\ fn' = [op |-> "update_leaderboard",
                    cmp |-> Compare(leaderboard, user_id, topic,
                                    Percentage(score, total_questions)),
                    kept |-> r.leaderboard = leaderboard,
                    raised |-> r.raised]
    /\ UNCHANGED <<ss, users, next_user_id, user_scores, certificates,
                   assessment_history, now, ev, calls>>

NextBoard ==
    \/ \E user_id \in 2..(MaxAccounts + 1), topic \in Topics, total \in 0..MaxBlocks :
         \E score \in 0..total : UpdateLeaderboard(user_id, topic, score, total)
    \/ Tick

SpecBoard == InitBoard /\ [][NextBoard]_vars

(***************************************************************************)
(* generate_with_fallback on its own: the loop over GEMINI_API_KEYS for a   *)
(* key list of 1..MaxKeys keys (the list in the source holds one) and       *)
(* every outcome of each generate_content call.                            *)
(***************************************************************************)
InitFallback ==
    /\ ss = [logged_in |-> FALSE, user_id |-> NoUser, is_admin |-> FALSE,
             questions |-> NoText, generated_topic |-> None,
             time_limit |-> NoTime, test_start_time |-> NoTime]
    /\ users = {1}
    /\ next_user_id = 2
    /\ user_scores = <<>>
    /\ certificates = <<>>
    /\ assessment_history = <<>>
    /\ leaderboard = <<>>
    /\ now = 0
    /\ ev = NoEvent
    /\ \E n \in 1..MaxKeys : \E outcomes \in [1..n -> ApiOutcomes] :
          fn = [op |-> "keys", outcomes |-> outcomes]
    /\ calls = NoCalls

GenerateWithFallback ==
    /\ fn.op = "keys"
    /\ fn' = [op |-> "generate_with_fallback", outcomes |-> fn.outcomes,
              result |-> generate_with_fallback(fn.outcomes)]
    /\ UNCHANGED <<ss, users, next_user_id, tables, now, ev, calls>>

NextFallback == GenerateWithFallback

SpecFallback == InitFallback /\ [][NextFallback]_vars

(***************************************************************************)
(* get_leaderboard called on tables in which each user holds entries on    *)
(* up to MaxTopics topics, with every limit up to MaxLimit (the page asks   *)
(* for 5 to 50; with the few users of the model the smaller limits let the  *)
(* LIMIT clause cut the result as 5 does with six users).                   *)
(***************************************************************************)
TopicNames == <<"A", "B", "C", "D", "E">>

RECURSIVE EntriesFor(_, _)
\* the rows of the users from u on; sc[v] holds the scores, out of 2, of
\* user v on the first topics
EntriesFor(sc, u) ==
    IF u \notin DOMAIN sc THEN <<>>
    ELSE [i \in 1..Len(sc[u]) |->
            [user_id |-> u, topic |-> TopicNames[i], score |-> sc[u][i],
             total_questions |-> 2, percentage |-> Percentage(sc[u][i], 2),
             rank |-> NullRank, timestamp |-> 0]]
         \o EntriesFor(sc, u + 1)

ScoreLists == UNION {[1..k -> 1..2] : k \in 0..MaxTopics}

InitRead ==
    /\ ss = [logged_in |-> FALSE, user_id |-> NoUser, is_admin |-> FALSE,
             questions |-> NoText, generated_topic |-> None,
             time_limit |-> NoTime, test_start_time |-> NoTime]
    /\ users = 1..(MaxAccounts + 1)
    /\ next_user_id = MaxAccounts + 2
    /\ user_scores = <<>>
    /\ certificates = <<>>
    /\ assessment_history = <<>>
    /\ \E sc \in [2..(MaxAccounts + 1) -> ScoreLists] : leaderboard = EntriesFor(sc, 2)
    /\ now = 0
    /\ ev = NoEvent
    /\ fn = [op |-> "none"]
    /\ calls = NoCalls

\* show_leaderboard: the read of the selected topic, "Overall" being None
GetLeaderboard(topic, limit) ==
    /\ fn.op = "none"
    /\ \E result \in get_leaderboard(leaderboard, users, topic, limit) :
          fn' = [op |-> "get_leaderboard", topic |-> topic, limit |-> limit,
                 before |-> leaderboard, result |-> result]
    /\ UNCHANGED <<ss, users, next_user_id, tables, now, ev, calls>>

NextRead ==
    \E topic \in {None} \cup {TopicNames[i] : i \in 1..MaxTopics}, limit \in 1..MaxLimit :
       GetLeaderboard(topic, limit)

SpecRead == InitRead /\ [][NextRead]_vars

(***************************************************************************)
(* update_leaderboard called by two sessions at once, statement by          *)
(* statement.  sqlite lets one connection write at a time: the first        *)
(* INSERT or UPDATE of a connection takes the write lock of the database    *)
(* and keeps it until the connection commits or is dropped; meanwhile the   *)
(* write of any other connection waits and, after the busy timeout, fails   *)
(* with "database is locked".  Reads see the committed rows only.           *)
(***************************************************************************)
InCall(c) == c.pc \in {"check", "write", "select", "rank", "commit"}

\* the write of a connection other than the lock holder fails
WriteNeverBlocked(writer) == FALSE

WriteBlocked(writer) == writer # 0

\* the call has ended; its connections are closed or dropped
Ended(c, pc) == [NoCall EXCEPT !.pc = pc, !.topic = c.topic, !.overlapped = c.overlapped]

InitConc ==
    /\ Init

\* line 163: a session enters update_leaderboard
StartUpdate(p, user_id, topic, score, total_questions) ==
    /\ ~InCall(calls.of[p])
    /\ LET others == {q \in Sessions \ {p} : InCall(calls.of[q])}
       IN  calls' = [calls EXCEPT !.of =
              [q \in Sessions |->
                 IF q = p
                 THEN [NoCall EXCEPT !.pc = "check", !.user_id = user_id, !.topic = topic,
                                     !.score = score, !.total_questions = total_questions,
                                     !.overlapped = others # {}]
                 ELSE IF q \in others THEN [calls.of[q] EXCEPT !.overlapped = TRUE]
                 ELSE calls.of[q]]]
    /\ UNCHANGED <<ss, users, next_user_id, tables, now, ev, fn>>

\* lines 172-173: SELECT id FROM leaderboard WHERE user_id=? AND topic=?
CheckExisting(p) ==
    LET c == calls.of[p]
    IN  /\ c.pc = "check"
        /\ calls' = [calls EXCEPT !.of[p] =
               [c EXCEPT !.pc = "write",
                         !.existing = \E i \in 1..Len(leaderboard) :
                                         /\ leaderboard[i].user_id = c.user_id
                                         /\ leaderboard[i].topic = c.topic]]
        /\ UNCHANGED <<ss, users, next_user_id, tables, now, ev, fn>>

\* lines 175-187: the UPDATE or the INSERT, stamped CURRENT_TIMESTAMP; it
\* waits while another connection holds the write lock, and stays private to
\* the connection until the commit
WriteEntry(p) ==
    LET c == calls.of[p]
    IN  /\ c.pc = "write"
        /\ ~WriteBlocked(calls.writer)
        /\ calls' = [calls EXCEPT
               !.writer = p,
               !.of[p] = [c EXCEPT !.pc = "select", !.ts = now]]
        /\ UNCHANGED <<ss, users, next_user_id, tables, now, ev, fn>>

\* lines 175-187: the busy timeout passes: "database is locked"
WriteTimeout(p) ==
    LET c == calls.of[p]
    IN  /\ c.pc = "write"
        /\ WriteBlocked(calls.writer)
        /\ calls' = [calls EXCEPT !.of[p] = Ended(c, "raised")]
        /\ UNCHANGED <<ss, users, next_user_id, tables, now, ev, fn>>

\* lines 197-207: recalculate_leaderboard_ranks connects and reads the
\* entries of the topic in rank order
SelectEntries(p) ==
    LET c == calls.of[p]
    IN  /\ c.pc = "select"
        /\ \E entries \in SelectOrdered(leaderboard, c.topic) :
              calls' = [calls EXCEPT !.of[p] = [c EXCEPT !.pc = "rank", !.entries = entries]]
        /\ UNCHANGED <<ss, users, next_user_id, tables, now, ev, fn>>

\* lines 210-214: the UPDATEs of rank on the second connection and its
\* commit.  The first UPDATE needs the write lock, which the connection of
\* this very call holds since WriteEntry: it can only time out, and the
\* exception drops both connections.
UpdateRanks(p) ==
    LET c == calls.of[p]
    IN  /\ c.pc = "rank"
        /\ IF c.entries = <<>>
           THEN /\ calls' = [calls EXCEPT !.of[p] = [c EXCEPT !.pc = "commit"]]
                /\ UNCHANGED leaderboard
           ELSE IF WriteBlocked(calls.writer)
           THEN /\ calls' = [calls EXCEPT !.writer = 0, !.of[p] = Ended(c, "raised")]
                /\ UNCHANGED leaderboard
           ELSE /\ calls' = [calls EXCEPT !.of[p] = [c EXCEPT !.pc = "commit"]]
                /\ leaderboard' = SetRanks(leaderboard, c.entries)
        /\ UNCHANGED <<ss, users, next_user_id, user_scores, certificates,
                       assessment_history, now, ev, fn>>

\* lines 192-193: conn.commit(); conn.close(): the UPDATE or INSERT of lines
\* 175-187 reaches the committed table
CommitEntry(p) ==
    LET c == calls.of[p]
        percentage == Percentage(c.score, c.total_questions)
    IN  /\ c.pc = "commit"
        /\ leaderboard' = IF c.existing
                          THEN UpdateEntry(leaderboard, c.user_id, c.topic, c.score,
                                           c.total_questions, percentage, c.ts)
                          ELSE InsertEntry(leaderboard, c.user_id, c.topic, c.score,
                                           c.total_questions, percentage, c.ts)
        /\ calls' = [calls EXCEPT !.writer = 0, !.of[p] = Ended(c, "done")]
        /\ UNCHANGED <<ss, users, next_user_id, user_scores, certificates,
                       assessment_history, now, ev, fn>>

NextConc ==
    \/ \E p \in Sessions, user_id \in 2..(MaxAccounts + 1), topic \in Topics,
          score \in 1..2 :
         StartUpdate(p, user_id, topic, score, 2)
    \/ \E p \in Sessions : CheckExisting(p)
    \/ \E p \in Sessions : WriteEntry(p)
    \/ \E p \in Sessions : WriteTimeout(p)
    \/ \E p \in Sessions : SelectEntries(p)
    \/ \E p \in Sessions : UpdateRanks(p)
    \/ \E p \in Sessions : CommitEntry(p)

SpecConc == InitConc /\ [][NextConc]_vars

(***************************************************************************)
(* Properties.                                                             *)
(***************************************************************************)
Rows(table) == {table[i] : i \in 1..Len(table)}

CertsOf(user_id, topic) ==
    {i \in 1..Len(certificates) :
        certificates[i].user_id = user_id /\ certificates[i].topic = topic}

EntriesOf(user_id, topic) ==
    {i \in 1..Len(leaderboard) :
        leaderboard[i].user_id = user_id /\ leaderboard[i].topic = topic}

\* C1: a graded submission of a signed-in account with correctCount c of t
\* questions leaves a certificate for (userId, topic) if and only if
\* 100*c/t >= 80.
C1_CertificateIffEighty ==
    (ev.op = "submit" /\ TruthyId(ev.user_id)) =>
        ((CertsOf(ev.user_id, ev.topic) # {}) <=> PctGE(ev.percentage, 80))

\* the ranks of the topic's rows are exactly 1..N, in the order percentage
\* descending then timestamp descending
DenseRanked(lb, topic) ==
    LET ids == EntryIds(lb, topic)
    IN  /\ {lb[i].rank : i \in ids} = 1..Cardinality(ids)
        /\ \A i, j \in ids : i # j => lb[i].rank # lb[j].rank
        /\ \A i, j \in ids :
              lb[i].rank < lb[j].rank =>
                 \/ PctGT(lb[i].percentage, lb[j].percentage)
                 \/ /\ PctEQ(lb[i].percentage, lb[j].percentage)
                    /\ lb[i].timestamp >= lb[j].timestamp

\* C2: in every reachable state the ranks of each topic's leaderboard rows
\* are a dense permutation of 1..N ordered by percentage descending, ties by
\* the most recent timestamp first.
C2_RanksDenseEverywhere == \A topic \in Topics : DenseRanked(leaderboard, topic)

\* C3: recalculate_leaderboard_ranks(topic) leaves the N rows of the topic
\* with the ranks 1..N, each used once, and changes nothing else: no rank of
\* another topic and no other column.
C3_RecalcDensePermutation ==
    fn.op = "recalculate_leaderboard_ranks" =>
        LET ids == EntryIds(leaderboard, fn.topic)
        IN  /\ Len(leaderboard) = Len(fn.before)
            /\ {leaderboard[i].rank : i \in ids} = 1..Cardinality(ids)
            /\ \A i, j \in ids : i # j => leaderboard[i].rank # leaderboard[j].rank
            /\ \A i \in 1..Len(leaderboard) :
                  IF i \in ids
                  THEN leaderboard[i] = [fn.before[i] EXCEPT !.rank = leaderboard[i].rank]
                  ELSE leaderboard[i] = fn.before[i]

\* C3 witness: the function ran on a topic with at least two rows while a
\* row of the other topic carried a stale rank.
C3_Witness ==
    /\ fn.op = "recalculate_leaderboard_ranks"
    /\ Cardinality(EntryIds(leaderboard, fn.topic)) >= 2
    /\ \E i \in 1..Len(leaderboard) :
          leaderboard[i].topic # fn.topic /\ leaderboard[i].rank = 1

C5_RecentTieRanksFirst ==
    (/\ ev.op = "submit" /\ TruthyId(ev.user_id) /\ ev.user_id \in users
     /\ Cardinality({i \in 1..Len(user_scores) :
                        /\ user_scores[i].user_id = ev.user_id
                        /\ user_scores[i].topic = ev.topic}) = 1) =>
        \A i \in 1..Len(leaderboard) :
           (/\ leaderboard[i].topic = ev.topic
            /\ leaderboard[i].user_id # ev.user_id
            /\ PctEQ(leaderboard[i].percentage, ev.percentage)
            /\ leaderboard[i].timestamp < now) =>
              \E j \in EntriesOf(ev.user_id, ev.topic) :
                 /\ leaderboard[j].rank # NullRank
                 /\ leaderboard[i].rank # NullRank
                 /\ leaderboard[j].rank < leaderboard[i].rank

\* C6: grading yields 0 <= correctCount <= total and
\* percentage = 100*correctCount/total, and percentage 0 when total = 0.
C6_GradeBounds ==
    fn.op = "grade" =>
        LET r == fn.result
        IN  /\ r.total = Len(fn.user_answers)
            /\ 0 <= r.correct_count /\ r.correct_count <= r.total
            /\ r.score_percentage.d > 0
            /\ IF r.total = 0 THEN r.score_percentage.n = 0
               ELSE r.score_percentage.n * r.total
                       = 100 * r.correct_count * r.score_percentage.d

\* C6 witness: a text of two questions graded with one correct answer.
C6_Witness ==
    fn.op = "grade" /\ fn.result.total = 2 /\ fn.result.correct_count = 1

LevelRank(level) ==
    CASE level = "Novice" -> 0 [] level = "Beginner" -> 1 [] level = "Intermediate" -> 2
      [] level = "Advanced" -> 3 [] level = "Expert" -> 4

\* C7: determine_level is the step function Expert >= 90, Advanced >= 75,
\* Intermediate >= 60, Beginner >= 40, Novice below; it never decreases as
\* the percentage grows, and level(90) = Expert, level(89.9) = Advanced,
\* level(75) = Advanced, level(59.9) = Beginner, level(39.9) = Novice.
C7_LevelSteps ==
    fn.op = "determine_level" =>
        LET k == fn.tenths
        IN  /\ fn.level = (IF k >= 900 THEN "Expert"
                           ELSE IF k >= 750 THEN "Advanced"
                           ELSE IF k >= 600 THEN "Intermediate"
                           ELSE IF k >= 400 THEN "Beginner" ELSE "Novice")
            /\ k > 0 => LevelRank(determine_level([n |-> k - 1, d |-> 10]))
                           <= LevelRank(fn.level)
            /\ k = 900 => fn.level = "Expert"
            /\ k = 899 => fn.level = "Advanced"
            /\ k = 750 => fn.level = "Advanced"
            /\ k = 599 => fn.level = "Beginner"
            /\ k = 399 => fn.level = "Novice"

\* C7 witness: determine_level(89.9) returned Advanced.
C7_Witness ==
    fn.op = "determine_level" /\ fn.tenths = 899 /\ fn.level = "Advanced"

\* C8: every submission from a signed-in session appends exactly one
\* ScoreRecord and exactly one AssessmentHistory record and leaves a
\* leaderboard entry for (userId, topic).
C8_SubmissionAlwaysRecorded ==
    [][(ev'.op = "submit" /\ ss.logged_in) =>
          /\ Len(user_scores') = Len(user_scores) + 1
          /\ Len(assessment_history') = Len(assessment_history) + 1
          /\ \E j \in 1..Len(leaderboard') :
                /\ leaderboard'[j].user_id = ss.user_id
                /\ leaderboard'[j].topic = ev'.topic]_vars

\* C9: the store holds at most one certificate per (userId, topic), and a
\* qualifying score (percentage >= 80) of a signed-in account leaves exactly
\* the certificate of that score for the pair.
C9_OneCertificatePerPair ==
    /\ \A i, j \in 1..Len(certificates) :
          (certificates[i].user_id = certificates[j].user_id
              /\ certificates[i].topic = certificates[j].topic) => i = j
    /\ (ev.op = "submit" /\ TruthyId(ev.user_id) /\ PctGE(ev.percentage, 80)) =>
          \E i \in CertsOf(ev.user_id, ev.topic) :
             certificates[i].score = ev.correct_count

\* C10: every stored ScoreRecord has totalQuestions > 0 and
\* 0 <= correctCount <= totalQuestions.
C10_ScoreRecordWellFormed ==
    \A r \in Rows(user_scores) :
        /\ r.total_questions > 0
        /\ 0 <= r.score /\ r.score <= r.total_questions

\* C11: a generated assessment is graded at most once: once a submission of
\* a signed-in account has been graded and its ScoreRecord appended, no further
\* ScoreRecord is appended until a new assessment has been generated (the
\* step that follows the submission directly cannot append one).
C11_GradedAtMostOnce ==
    [][(ev.op = "submit" /\ TruthyId(ev.user_id)) =>
          Len(user_scores') <= Len(user_scores)]_vars

\* C12: generate_with_fallback calls the keys in list order, each at most
\* once; it goes on to the next key exactly after an error that holds a retry
\* keyword, stops at the first non-empty response and returns it, and never
\* makes more calls than the list has keys.
C12_KeysInOrderBounded ==
    fn.op = "generate_with_fallback" =>
        LET o == fn.outcomes
            r == fn.result
            k == Len(r.tried)
        IN  /\ 1 <= k /\ k <= Len(o)
            /\ \A j \in 1..k : r.tried[j] = j
            /\ \A j \in 1..(k - 1) : o[j].kind = "retryable"
            /\ o[k].kind = "retryable" => k = Len(o)
            /\ Succeeded(o[k]) => r.kind = "return" /\ r.text = Strip(o[k].text)

\* C12 witness: the first key failed with a retryable error and the second
\* key returned the text.
C12_Witness ==
    /\ fn.op = "generate_with_fallback"
    /\ fn.result.tried = <<1, 2>>
    /\ fn.result.kind = "return" /\ fn.result.text # NoText
    /\ Len(fn.outcomes) = 3

\* the call ended at an attempt that failed with an error without a retry
\* keyword (an exception of the service, or the empty response)
EndedOnOtherError ==
    /\ fn.op = "generate_with_fallback"
    /\ LET k == Len(fn.result.tried)
       IN  ~Succeeded(fn.outcomes[k]) /\ fn.outcomes[k].kind # "retryable"

\* C13 as claimed: after an attempt that fails with an error that is not
\* retryable no further key is tried and the error leaves
\* generate_with_fallback as an exception.
C13_OtherErrorPropagates ==
    EndedOnOtherError => fn.result.kind = "raise"

\* C13: after an attempt that fails with an error that is not retryable no
\* further key is tried and generate_with_fallback returns None at once; the
\* error does not leave the function.
C13_OtherErrorReturnsNone ==
    (/\ fn.op = "generate_with_fallback"
     /\ \E j \in 1..Len(fn.outcomes) :
           /\ ~Succeeded(fn.outcomes[j]) /\ fn.outcomes[j].kind # "retryable"
           /\ \A i \in 1..(j - 1) : fn.outcomes[i].kind = "retryable") =>
        LET j == CHOOSE j \in 1..Len(fn.outcomes) :
                   /\ ~Succeeded(fn.outcomes[j]) /\ fn.outcomes[j].kind # "retryable"
                   /\ \A i \in 1..(j - 1) : fn.outcomes[i].kind = "retryable"
        IN  /\ fn.result.kind = "return" /\ fn.result.text = NoText
            /\ fn.result.tried = [i \in 1..j |-> i]

\* C13 witness: the second of three keys failed with another error, and the
\* third key, which would have answered, was not tried.
C13_Witness ==
    /\ EndedOnOtherError
    /\ fn.result.tried = <<1, 2>>
    /\ fn.outcomes[2].kind = "other"
    /\ Len(fn.outcomes) = 3 /\ Succeeded(fn.outcomes[3])

\* C14: when every key fails with a retryable error generate_with_fallback
\* ends with the RuntimeError after the loop, having tried every key, and
\* returns nothing.
C14_ExhaustedRaises ==
    (/\ fn.op = "generate_with_fallback"
     /\ \A j \in 1..Len(fn.outcomes) : fn.outcomes[j].kind = "retryable") =>
        /\ fn.result.kind = "raise"
        /\ fn.result.tried = [i \in 1..Len(fn.outcomes) |-> i]

\* C14 witness: three keys, three retryable errors, the call raised.
C14_Witness ==
    /\ fn.op = "generate_with_fallback"
    /\ Len(fn.outcomes) = 3
    /\ \A j \in 1..3 : fn.outcomes[j].kind = "retryable"
    /\ fn.result.kind = "raise"

\* the positions in user_answers of the questions whose prompt line is the
\* one of block i
QuestionsOfBlock(i) ==
    {j \in 1..Len(fn.user_answers) : fn.user_answers[j].question = PromptLine(i)}

ShortKinds == {"short", "broken"}

\* C16: a block of fewer than six lines (a partial block, also the last one
\* of the text, and the two pieces of a block broken by a blank line) yields
\* no question; it counts neither toward the total nor toward the correct
\* count, and parsing and grading the text raise nothing.
C16_ShortBlocksSkipped ==
    fn.op = "grade" =>
        LET full == {i \in 1..Len(fn.kinds) : fn.kinds[i] \notin ShortKinds}
        IN  /\ \A i \in 1..Len(fn.kinds) :
                  fn.kinds[i] \in ShortKinds => QuestionsOfBlock(i) = {}
            /\ \A j \in 1..Len(fn.user_answers) :
                  \E i \in full : fn.user_answers[j].question = PromptLine(i)
            /\ fn.result.total = Cardinality(full)
            /\ fn.result.correct_count <= Cardinality(full)

\* C16 witness: a valid block followed by a trailing partial block; one
\* question, answered correctly.
C16_Witness ==
    /\ fn.op = "grade"
    /\ fn.kinds = <<"a", "short">>
    /\ fn.result.total = 1 /\ fn.result.correct_count = 1

\* C17: a question without a submitted choice and a question without an
\* answer key are never counted as correct, and every presented question
\* counts toward the total, the denominator of the percentage.
C17_UngradableNeverCorrect ==
    fn.op = "grade" =>
        LET n == Len(fn.user_answers)
            gradable == {j \in 1..n : fn.picks[j] # 0 /\ fn.user_answers[j].correct # <<>>}
            presented == {i \in 1..Len(fn.kinds) : fn.kinds[i] \notin ShortKinds}
        IN  /\ fn.result.correct_count <= Cardinality(gradable)
            /\ fn.result.total = n
            /\ n = Cardinality(presented)
            /\ n > 0 => fn.result.score_percentage
                            = [n |-> 100 * fn.result.correct_count, d |-> n]

\* C17 witness: two questions, the first without an answer key but answered,
\* the second valid but not answered; none correct, total 2.
C17_Witness ==
    /\ fn.op = "grade"
    /\ fn.kinds = <<"nokey", "a">>
    /\ fn.picks[1] # 0 /\ fn.picks[2] = 0
    /\ fn.result.total = 2 /\ fn.result.correct_count = 0

\* the rows of a user in the leaderboard
EntriesOfUser(u) == {i \in 1..Len(leaderboard) : leaderboard[i].user_id = u}

RECURSIVE ScoreSum(_)
\* the sum of the scores of a set of leaderboard rows
ScoreSum(ids) ==
    IF ids = {} THEN 0
    ELSE LET i == CHOOSE i \in ids : TRUE
         IN  leaderboard[i].score + ScoreSum(ids \ {i})

\* the users with at least three leaderboard rows
Qualified == {u \in users : Cardinality(EntriesOfUser(u)) >= 3}

\* the mean of the percentages of a user's rows is p (the rows of the drawn
\* tables are all out of 2 questions: percentage = 100 * score / 2)
IsMeanOf(p, u) ==
    LET count == Cardinality(EntriesOfUser(u))
    IN  p.n * 2 * count = 100 * ScoreSum(EntriesOfUser(u)) * p.d

\* the rows of an Overall result carry the mean, the count and the rank by
\* mean of their user, in descending order of the mean, and nothing stored
\* has changed
OverallRowsRight ==
    LET res == fn.result
    IN  /\ \A a, b \in 1..Len(res) : a # b => res[a].username # res[b].username
        /\ \A a \in 1..Len(res) :
              /\ res[a].username \in Qualified
              /\ IsMeanOf(res[a].avg_percentage, res[a].username)
              /\ res[a].tests_taken = Cardinality(EntriesOfUser(res[a].username))
              /\ res[a].rank = 1 + Cardinality({v \in Qualified :
                                   \E q \in {[n |-> 50 * ScoreSum(EntriesOfUser(v)),
                                               d |-> Cardinality(EntriesOfUser(v))]} :
                                      PctGT(q, res[a].avg_percentage)})
        /\ \A a, b \in 1..Len(res) :
              a < b => ~PctGT(res[b].avg_percentage, res[a].avg_percentage)
        /\ leaderboard = fn.before

\* C18 as claimed: the Overall read returns exactly the users with at least
\* three leaderboard entries, each with the mean of its percentages, ordered
\* and ranked by the mean descending, and changes no stored record.
C18_OverallAllQualified ==
    (fn.op = "get_leaderboard" /\ fn.topic = None) =>
        /\ {fn.result[a].username : a \in 1..Len(fn.result)} = Qualified
        /\ OverallRowsRight

\* C18: the Overall read returns the first `limit` (all, if there are no
\* more) of the users with at least three leaderboard entries in descending
\* order of the mean of their percentages, each with that mean, its number
\* of entries and its rank by mean among all those users, and changes no
\* stored record.
C18_OverallTopLimit ==
    (fn.op = "get_leaderboard" /\ fn.topic = None) =>
        LET shown == {fn.result[a].username : a \in 1..Len(fn.result)}
        IN  /\ Len(fn.result) = (IF Cardinality(Qualified) < fn.limit
                                 THEN Cardinality(Qualified) ELSE fn.limit)
            /\ shown \subseteq Qualified
            /\ \A v \in Qualified \ shown : \A a \in 1..Len(fn.result) :
                  ~PctGT([n |-> 50 * ScoreSum(EntriesOfUser(v)),
                          d |-> Cardinality(EntriesOfUser(v))],
                         fn.result[a].avg_percentage)
            /\ OverallRowsRight

\* C18 witness: one user with three entries and the better mean, one with
\* three entries and a lower mean; the read with limit 2 returned both, ranked
\* 1 and 2.
C18_Witness ==
    /\ fn.op = "get_leaderboard" /\ fn.topic = None /\ fn.limit = 2
    /\ Len(fn.result) = 2
    /\ PctGT(fn.result[1].avg_percentage, fn.result[2].avg_percentage)
    /\ fn.result[1].rank = 1 /\ fn.result[2].rank = 2

\* C20: when update_leaderboard returns after it has inserted or overwritten
\* an entry, that entry has a rank (not NULL), and the rank places it after
\* every entry of its topic with a greater percentage.
C20_WrittenEntryRanked ==
    [][(fn'.op = "update_leaderboard" /\ ~fn'.raised) =>
          \A j \in 1..Len(leaderboard') :
             (\/ j > Len(leaderboard)
              \/ [leaderboard'[j] EXCEPT !.rank = NullRank]
                    # [leaderboard[j] EXCEPT !.rank = NullRank]) =>
                /\ leaderboard'[j].rank # NullRank
                /\ \A i \in EntryIds(leaderboard', leaderboard'[j].topic) :
                      PctGT(leaderboard'[i].percentage, leaderboard'[j].percentage) =>
                         leaderboard'[i].rank < leaderboard'[j].rank]_vars

\* every session is outside update_leaderboard and has made a call
AllEnded == \A p \in Sessions : calls.of[p].pc \in {"done", "raised"}

\* C19: the rank recomputation of concurrent submissions does not leave
\* dense ranks: whenever the update_leaderboard calls of concurrent sessions
\* have all ended, the ranks of a topic that has entries are not a dense
\* permutation 1..N in percentage order (so such a state is reachable after
\* two overlapping calls on one topic).
C19_ConcurrentRanksNotDense ==
    AllEnded => \A topic \in Topics :
                   EntryIds(leaderboard, topic) # {} => ~DenseRanked(leaderboard, topic)

\* C19 witness: two sessions called update_leaderboard for the same topic,
\* the calls overlapped, both have ended, and the topic's ranks are not a
\* dense permutation.
C19_Witness ==
    /\ AllEnded
    /\ calls.of[1].overlapped /\ calls.of[2].overlapped
    /\ calls.of[1].topic = "A" /\ calls.of[2].topic = "A"
    /\ EntryIds(leaderboard, "A") # {}
    /\ ~DenseRanked(leaderboard, "A")

\* C21: save_user_score and update_leaderboard always run to completion: a
\* call of update_leaderboard that no other session overlaps never raises,
\* whether or not its topic already has entries.
C21_UpdateRunsToCompletion ==
    fn.op = "update_leaderboard" => ~fn.raised

\* C22: at most one leaderboard entry per (user, topic) in every reachable
\* state, also while and after two sessions run update_leaderboard for the
\* same user and topic with interleaved check and insert.
C22_OneEntryPerUserTopic ==
    \A i, j \in 1..Len(leaderboard) :
       (leaderboard[i].user_id = leaderboard[j].user_id
        /\ leaderboard[i].topic = leaderboard[j].topic) => i = j

\* C22 witness: a session found no entry for its user and topic, has
\* executed its INSERT after the overlapping call of the other session
\* committed an entry for the same user and topic, and has read the topic's
\* entries for ranking.
C22_Witness ==
    \E p \in Sessions :
       LET c == calls.of[p]
       IN  /\ c.pc = "rank" /\ ~c.existing /\ c.overlapped
           /\ calls.writer = p
           /\ \E i \in 1..Len(leaderboard) :
                 leaderboard[i].user_id = c.user_id /\ leaderboard[i].topic = c.topic

\* C23: the correct option of a question is the first letter after the label
\* of its answer line, lower-cased, whatever the case of the label and the
\* spacing: the answer lines "Answer: B", "answer: b", "Answer:b" and
\* "Answer: b) x" all yield the correct option "b".
C23_AnswerLineNormalised ==
    fn.op = "grade" =>
        \A i \in 1..Len(fn.kinds) :
           fn.kinds[i] \in VariantKinds =>
              /\ QuestionsOfBlock(i) # {}
              /\ \A j \in QuestionsOfBlock(i) : fn.user_answers[j].correct = <<"b">>

\* C24: a question is counted as correct exactly when a choice was submitted,
\* the question has a correct option, and the first character of the choice
\* equals, case-insensitively, the first character of the correct option;
\* what follows the first character of either does not matter.
C24_FirstCharactersDecide ==
    fn.op = "grade" =>
        LET n == Len(fn.user_answers)
            Choice(j) == ChoiceOf(fn.user_answers[j], fn.picks[j])
            right == {j \in 1..n :
                        /\ Choice(j) # NoText
                        /\ fn.user_answers[j].correct # <<>>
                        /\ LowerChar(Choice(j)[1])
                              = LowerChar(fn.user_answers[j].correct[1])}
        IN  fn.result.correct_count = Cardinality(right)

(***************************************************************************)
(* "Generate Assessment" pressed once in a learner's session that holds no  *)
(* assessment or the assessment of an earlier generation.                  *)
(***************************************************************************)
\* the sessions of a signed-in learner
LearnerSessions ==
    {[logged_in |-> TRUE, user_id |-> u, is_admin |-> FALSE,
      questions |-> NoText, generated_topic |-> None,
      time_limit |-> NoTime, test_start_time |-> NoTime] : u \in 2..(MaxAccounts + 1)}
    \cup
    {[logged_in |-> TRUE, user_id |-> u, is_admin |-> FALSE,
      questions |-> Strip(text), generated_topic |-> topic,
      time_limit |-> time_limit, test_start_time |-> 0] :
         u \in 2..(MaxAccounts + 1), text \in ApiTexts, topic \in Topics,
         time_limit \in TimeLimits}

InitGenerate ==
    /\ ss \in LearnerSessions
    /\ users = 1..(MaxAccounts + 1)
    /\ next_user_id = MaxAccounts + 2
    /\ user_scores = <<>>
    /\ certificates = <<>>
    /\ assessment_history = <<>>
    /\ leaderboard = <<>>
    /\ now \in 0..MaxTime
    /\ ev = NoEvent
    /\ fn = [op |-> "session"]
    /\ calls = NoCalls

GenerateOnce(topic, outcomes) ==
    /\ fn.op = "session"
    /\ ss.logged_in /\ ~ss.is_admin
    /\ \E time_limit \in TimeLimits :
          ss' = GenerateAssessment(ss, topic, time_limit, outcomes, now)
    /\ fn' = [op |-> "generate", topic |-> topic, outcomes |-> outcomes, before |-> ss]
    /\ UNCHANGED <<users, next_user_id, tables, now, ev, calls>>

NextGenerate ==
    \E topic \in Topics, outcomes \in [1..NumKeys -> ApiOutcomes] : GenerateOnce(topic, outcomes)

SpecGenerate == InitGenerate /\ [][NextGenerate]_vars

\* the generation ends with a non-empty text: some key's call answers with a
\* text that is not blank, and the calls of the keys before it failed with a
\* retryable error
GenerationSucceeds(outcomes) ==
    \E i \in 1..Len(outcomes) :
       /\ outcomes[i].kind = "text" /\ Strip(outcomes[i].text) # <<>>
       /\ \A k \in 1..(i - 1) : outcomes[k].kind = "retryable"

\* C25: an assessment is created in the session only when the generation
\* succeeds with a non-empty text: then the session holds the new questions,
\* topic, time limit and start time; when the generation returns nothing or
\* raises, the session is left as it was.
C25_AssessmentOnlyOnSuccess ==
    fn.op = "generate" =>
        IF GenerationSucceeds(fn.outcomes)
        THEN /\ ss.questions # NoText
             /\ \E i \in 1..Len(fn.outcomes) : ss.questions = Strip(fn.outcomes[i].text)
             /\ ss.generated_topic = fn.topic
             /\ ss.time_limit \in TimeLimits
             /\ ss.test_start_time = now
        ELSE ss = fn.before

\* C25 witness: the generation raised (the only key failed with a retryable
\* error) in a session that held an assessment, which is still there.
C25_Witness ==
    /\ fn.op = "generate"
    /\ fn.outcomes[1].kind = "retryable"
    /\ fn.before.questions # NoText
    /\ ss.questions = fn.before.questions
    /\ fn.topic # ss.generated_topic

(***************************************************************************)
(* The certificates table under the operations that touch it.  The store   *)
(* outlives the process: the run starts on a table that holds a            *)
(* certificate for each of the first n users, in any status the schema's   *)
(* status column takes on the admin page (active, expired, revoked).       *)
(***************************************************************************)
CertStatuses == {"active", "expired", "revoked"}

\* the tables of n certificates, one per user, issued at time 0
DrawnCertificates(n) ==
    {[i \in 1..n |->
        [user_id |-> i + 1, certificate_id |-> <<i + 1, 0>>, topic |-> "A",
         score |-> CertThreshold, status |-> st[i]]] : st \in [1..n -> CertStatuses]}

InitCert ==
    /\ ss = [logged_in |-> TRUE, user_id |-> ADMIN_ID, is_admin |-> TRUE,
             questions |-> NoText, generated_topic |-> None,
             time_limit |-> NoTime, test_start_time |-> NoTime]
    /\ users = 1..(MaxAccounts + 1)
    /\ next_user_id = MaxAccounts + 2
    /\ user_scores = <<>>
    /\ \E n \in 0..MaxAccounts : certificates \in DrawnCertificates(n)
    /\ assessment_history = <<>>
    /\ leaderboard = <<>>
    /\ now = 0
    /\ ev = NoEvent
    /\ fn = [op |-> "none"]
    /\ calls = NoCalls

\* UPDATE certificates SET status="revoked" with no WHERE clause
RevokeEvery(certs, cert_id) ==
    [i \in 1..Len(certs) |-> [certs[i] EXCEPT !.status = "revoked"]]

\* line 3277: UPDATE certificates SET status="revoked" WHERE certificate_id=?
Revoke(certs, cert_id) ==
    [i \in 1..Len(certs) |->
        IF certs[i].certificate_id = cert_id
        THEN [certs[i] EXCEPT !.status = "revoked"]
        ELSE certs[i]]

\* show_certificate_management: "Revoke Certificate", offered for the selected
\* certificate when its status is active
RevokeCertificate(cert_id) ==
    /\ ss.logged_in /\ ss.is_admin
    /\ \E i \in 1..Len(certificates) :
          /\ certificates[i].certificate_id = cert_id
          /\ certificates[i].status = "active"
    /\ certificates' = Revoke(certificates, cert_id)
    /\ ev' = Event("revoke", cert_id[1], None, 0, 0, NoPct, None, FALSE)
    /\ UNCHANGED <<ss, users, next_user_id, user_scores, assessment_history,
                   leaderboard, now, fn, calls>>

\* save_user_score called with a score that earns a certificate
SaveCertifiedScore(user_id) ==
    /\ Len(user_scores) < MaxSubmissions
    /\ \E r \in save_user_score(user_scores, certificates, leaderboard, user_id, "A",
                                CertThreshold, CertThreshold,
                                determine_level(Percentage(CertThreshold, CertThreshold)),
                                now) :
          /\ user_scores' = r.user_scores
          /\ certificates' = r.certificates
          /\ leaderboard' = r.leaderboard
          /\ ev' = Event("save", user_id, "A", CertThreshold, CertThreshold,
                         Percentage(CertThreshold, CertThreshold), None, r.raised)
    /\ UNCHANGED <<ss, users, next_user_id, assessment_history, now, fn, calls>>

NextCert ==
    \/ \E cert_id \in {<<u, t>> : u \in 2..(MaxAccounts + 1), t \in 0..MaxTime} :
          RevokeCertificate(cert_id)
    \/ \E user_id \in users \ {1} : SaveCertifiedScore(user_id)
    \/ \E u \in users : DeleteUser(u)
    \/ Tick

SpecCert == InitCert /\ [][NextCert]_vars

\* C26: the status of a certificate changes only from active to revoked, and
\* only by the revocation an admin performs on that certificate while it is
\* active; no step sets a status to expired, and a revoked certificate never
\* becomes active again.
C26_StatusOnlyActiveToRevoked ==
    [][\A i \in 1..Len(certificates), j \in 1..Len(certificates') :
          (/\ certificates[i].certificate_id = certificates'[j].certificate_id
           /\ certificates[i].status # certificates'[j].status) =>
             /\ certificates[i].status = "active"
             /\ certificates'[j].status = "revoked"
             /\ ss.logged_in /\ ss.is_admin
             /\ ev'.op = "revoke"
             /\ certificates[i].user_id = ev'.user_id]_vars

\* C26 witness: the admin has revoked the active certificate of user 2 while
\* another certificate of the table is expired and kept that status.
C26_Witness ==
    /\ ev.op = "revoke" /\ ev.user_id = 2
    /\ Len(certificates) = 2
    /\ certificates[1].status = "revoked"
    /\ certificates[2].status = "expired"

(***************************************************************************)
(* The functions that write the store, called for any user in any order:   *)
(* the saving of a graded submission, delete_user and the revocation of a  *)
(* certificate.  The run starts with every account registered and a stored *)
(* certificate for each of the first n users.                              *)
(***************************************************************************)
InitStore ==
    /\ ss = [logged_in |-> TRUE, user_id |-> ADMIN_ID, is_admin |-> TRUE,
             questions |-> NoText, generated_topic |-> None,
             time_limit |-> NoTime, test_start_time |-> NoTime]
    /\ users = 1..(MaxAccounts + 1)
    /\ next_user_id = MaxAccounts + 2
    /\ user_scores = <<>>
    /\ \E n \in 0..MaxAccounts :
          certificates = [i \in 1..n |->
             [user_id |-> i + 1, certificate_id |-> <<i + 1, 0>>, topic |-> "A",
              score |-> CertThreshold, status |-> "active"]]
    /\ assessment_history = <<>>
    /\ leaderboard = <<>>
    /\ now = 0
    /\ ev = NoEvent
    /\ fn = [op |-> "none"]
    /\ calls = NoCalls

\* the submission of a one-question assessment by a registered learner is
\* saved
SaveSubmission(user_id, topic, correct_count) ==
    /\ Len(user_scores) < MaxSubmissions
    /\ SaveResult(user_id, topic, correct_count, 1, Percentage(correct_count, 1),
                  determine_level(Percentage(correct_count, 1)))
    /\ UNCHANGED <<ss, users, next_user_id, now, fn, calls>>

NextStore ==
    \/ \E user_id \in users \ {1}, topic \in Topics, correct_count \in 0..1 :
          SaveSubmission(user_id, topic, correct_count)
    \/ \E u \in users : DeleteUser(u)
    \/ \E cert_id \in {<<u, t>> : u \in 2..(MaxAccounts + 1), t \in 0..MaxTime} :
          RevokeCertificate(cert_id)

SpecStore == InitStore /\ [][NextStore]_vars

\* the rows of a table that do not belong to user u
RowsOfOthers(table, u) ==
    LET Kept(r) == r.user_id # u
    IN  SelectSeq(table, Kept)

\* C27: delete_user removes the user and all ScoreRecords, Certificates,
\* AssessmentHistory records and LeaderboardEntries of that user and leaves
\* the rows of every other user as they were; no other operation removes or
\* changes a ScoreRecord.
C27_DeleteUserFrame ==
    [][/\ ev'.op = "delete" =>
             /\ users' = users \ {ev'.user_id}
             /\ user_scores' = RowsOfOthers(user_scores, ev'.user_id)
             /\ certificates' = RowsOfOthers(certificates, ev'.user_id)
             /\ assessment_history' = RowsOfOthers(assessment_history, ev'.user_id)
             /\ leaderboard' = RowsOfOthers(leaderboard, ev'.user_id)
       /\ ev'.op # "delete" =>
             /\ Len(user_scores') >= Len(user_scores)
             /\ SubSeq(user_scores', 1, Len(user_scores)) = user_scores]_vars

\* C27 witness: user 2 has been deleted from a store that held a certificate
\* of user 2 and one of user 3; no row of user 2 is left, and user 3 still
\* has the certificate, a ScoreRecord, a history record and a leaderboard
\* entry.
C27_Witness ==
    /\ ev.op = "delete" /\ ev.user_id = 2
    /\ 2 \notin users /\ 3 \in users
    /\ Len(certificates) = 1 /\ certificates[1].certificate_id = <<3, 0>>
    /\ user_scores # <<>> /\ assessment_history # <<>> /\ leaderboard # <<>>
    /\ \A i \in 1..Len(user_scores) : user_scores[i].user_id = 3
    /\ \A i \in 1..Len(leaderboard) : leaderboard[i].user_id = 3

\* C28: in every reachable state each user has as many ScoreRecords as
\* AssessmentHistory records: a submission persists both or neither, also
\* when the leaderboard update fails.
C28_ScoresMatchHistory ==
    \A u \in 1..(MaxAccounts + 1) :
       Cardinality({i \in 1..Len(user_scores) : user_scores[i].user_id = u})
          = Cardinality({i \in 1..Len(assessment_history) :
                            assessment_history[i].user_id = u})

\* C29: a login never opens a session that holds generated questions: the
\* questions generated before a logout are gone when the next user signs in,
\* so they cannot be submitted and recorded under the new login.
C29_LoginStartsWithoutAssessment ==
    [][(~ss.logged_in /\ ss'.logged_in) => ss'.questions = NoText]_vars

(***************************************************************************)
(* A learner's session that holds a generated assessment, started at time  *)
(* 0, while the clock runs past the time limit.                            *)
(***************************************************************************)
InitTimer ==
    /\ ss \in {s \in LearnerSessions : s.questions # NoText}
    /\ users = 1..(MaxAccounts + 1)
    /\ next_user_id = MaxAccounts + 2
    /\ user_scores = <<>>
    /\ certificates = <<>>
    /\ assessment_history = <<>>
    /\ leaderboard = <<>>
    /\ now = 0
    /\ ev = NoEvent
    /\ fn = [op |-> "none"]
    /\ calls = NoCalls

\* as many minutes pass as the time limit has
TimeLimitPasses ==
    /\ ~TimesUp(ss, now)
    /\ now' = now + 60 * ss.time_limit
    /\ ev' = NoEvent
    /\ UNCHANGED <<ss, users, next_user_id, tables, fn, calls>>

NextTimer ==
    \/ Submit
    \/ Tick
    \/ TimeLimitPasses

SpecTimer == InitTimer /\ [][NextTimer]_vars

\* C30: the time limit does not gate grading: every submission, within the
\* limit or after it, is graded from the options picked and persisted: the
\* ScoreRecord of its result is appended and, unless the save raised, its
\* AssessmentHistory record; nothing in the outcome depends on the time.
C30_LateSubmissionGraded ==
    [][ev'.op = "submit" =>
          LET user_answers == ParseQuestions(ss.questions)
          IN  \E picks \in Picks(Len(user_answers)) :
                 LET g == Grade(user_answers, picks)
                 IN  /\ ev'.correct_count = g.correct_count
                     /\ ev'.total = g.total
                     /\ ev'.percentage = g.score_percentage
                     /\ ev'.level = g.level
                     /\ user_scores' =
                           Append(user_scores,
                                  [user_id |-> ss.user_id, topic |-> ss.generated_topic,
                                   score |-> g.correct_count,
                                   total_questions |-> g.total, level |-> g.level])
                     /\ assessment_history' =
                           IF ev'.raised THEN assessment_history
                           ELSE Append(assessment_history,
                                       [user_id |-> ss.user_id,
                                        topic |-> ss.generated_topic,
                                        score |-> g.correct_count,
                                        max_score |-> g.total])]_vars

\* C30 witness: a submission made after the time limit (its leaderboard
\* entry carries a timestamp past the limit) was graded with one correct
\* answer and persisted as a ScoreRecord and an AssessmentHistory record.
C30_Witness ==
    /\ ev.op = "submit" /\ ~ev.raised /\ ev.correct_count = 1
    /\ TimesUp(ss, now)
    /\ Len(user_scores) = 1 /\ user_scores[1].score = 1
    /\ Len(assessment_history) = 1
    /\ Len(leaderboard) = 1
    /\ leaderboard[1].timestamp >= ss.test_start_time + 60 * ss.time_limit

====
